---------------------------- MODULE Spec2Model ----------------------------
(***************************************************************************)
(* SchemaSense: the SQL safety validator, the query executor and the      *)
(* approval-gated chat session (src/src/query/executor.py,                 *)
(* src/src/ui/handlers.py, src/src/llm/core.py, src/src/state/session.py,  *)
(* src/main.py).                                                           *)
(*                                                                         *)
(* Text is a sequence of one-character strings, so that strip, lower,      *)
(* startswith, the \b...\b keyword search and the ';' and ' limit ' tests  *)
(* are computed character by character as Python computes them.            *)
(***************************************************************************)
EXTENDS Integers, Sequences, FiniteSets, TLC

VARIABLES
    \* ---- st.session_state (src/src/state/session.py) ----
    messages,       \* chat history, newest last
    last_results,   \* None or the rows of the last successful approve
    pending_sql,    \* None or the pending action awaiting approval
    last_chart,     \* last_chart_rows / _type / _x_column / _y_column / _title
    \* ---- history of the handler that ran last (not program state) ----
    step,           \* what the last handler called, appended and raised
    origin,         \* utterance number that created pending_sql (0: none)
    nutter,         \* number of utterances handled so far
    submits,        \* times the current pending action reached run_sql_query
    approved,       \* TRUE once the user approved a pending action
    stored,         \* the rows successful approves stored since the last clear
    verdicts,       \* what each run_sql_query call of the session decided
    \* ---- the validator / executor exercised alone ----
    vsql,           \* the input text
    vpc,            \* "start", "validated", "ran"
    vres,           \* outcome of _validate_sql(vsql)
    vrun,           \* outcome of run_sql_query(vsql)
    \* ---- sessions served in parallel threads of one process ----
    clock,          \* datetime.now(), to the second
    exports_dir,    \* the files of EXPORTS_DIR, by path
    conns,          \* the data-store connections that are open
    opened,         \* number of connections opened so far
    sess            \* per session: where its approval stands and its locals

session_vars == <<messages, last_results, pending_sql, last_chart>>
history_vars == <<step, origin, nutter, submits, approved, stored, verdicts>>
validator_vars == <<vsql, vpc, vres, vrun>>
parallel_vars == <<clock, exports_dir, conns, opened, sess>>
vars == <<messages, last_results, pending_sql, last_chart,
          step, origin, nutter, submits, approved, stored, verdicts,
          vsql, vpc, vres, vrun,
          clock, exports_dir, conns, opened, sess>>

-----------------------------------------------------------------------------
(* Bounds of the model.                                                    *)

\* longest input of the validator, in lexemes
MaxToks == 4
\* utterances handled in one run of the session
MaxUtter == 2
\* approvals of one pending action that are followed
MaxSubmits == 2

-----------------------------------------------------------------------------
(* Python values.                                                          *)

\* An optional value (None or a value) is a sequence of at most one element.
None == <<>>

Some(x) == <<x>>

\* dict.get(key, default)
Get(d, key, default) == IF key \in DOMAIN d THEN d[key] ELSE default

-----------------------------------------------------------------------------
(* Characters and text (Python str).                                       *)

LowerOf ==
    ("A" :> "a") @@ ("B" :> "b") @@ ("C" :> "c") @@ ("D" :> "d") @@ ("E" :> "e") @@ ("F" :> "f") @@ ("G" :> "g") @@ ("H" :> "h") @@ ("I" :> "i")
    @@ ("J" :> "j") @@ ("K" :> "k") @@ ("L" :> "l") @@ ("M" :> "m") @@ ("N" :> "n") @@ ("O" :> "o") @@ ("P" :> "p") @@ ("Q" :> "q") @@ ("R" :> "r")
    @@ ("S" :> "s") @@ ("T" :> "t") @@ ("U" :> "u") @@ ("V" :> "v") @@ ("W" :> "w") @@ ("X" :> "x") @@ ("Y" :> "y") @@ ("Z" :> "z")

LowerLetters ==
    {"a", "b", "c", "d", "e", "f", "g", "h", "i", "j", "k", "l", "m", "n", "o", "p", "q", "r", "s", "t", "u", "v", "w", "x", "y", "z"}

Digits ==
    {"0", "1", "2", "3", "4", "5", "6", "7", "8", "9"}

\* \w of the re module: letters, digits and the underscore
WordChars == LowerLetters \cup DOMAIN LowerOf \cup Digits \cup {"_"}

\* what str.strip() removes
Whitespace == {" ", "\t", "\n", "\r"}

\* str.lower(), one character
LowerChar(c) == IF c \in DOMAIN LowerOf THEN LowerOf[c] ELSE c

\* str.lower()
Lower(s) ==
    LET F[i \in 0..Len(s)] ==
            IF i = 0 THEN <<>> ELSE Append(F[i - 1], LowerChar(s[i]))
    IN  F[Len(s)]

\* the least and the greatest element of a non-empty set of numbers
Least(S) == CHOOSE i \in S : \A j \in S : i <= j

Greatest(S) == CHOOSE i \in S : \A j \in S : j <= i

\* s without what lies before the first and after the last position kept
Between(s, keep) ==
    IF keep = {} THEN <<>> ELSE SubSeq(s, Least(keep), Greatest(keep))

\* str.strip()
Strip(s) == Between(s, {i \in 1..Len(s) : s[i] \notin Whitespace})

\* s up to the last position kept
UpTo(s, keep) == IF keep = {} THEN <<>> ELSE SubSeq(s, 1, Greatest(keep))

\* str.rstrip(";"): every trailing ';' goes
RStripSemi(s) == UpTo(s, {i \in 1..Len(s) : s[i] # ";"})

\* str.startswith(p)
StartsWith(s, p) == Len(s) >= Len(p) /\ SubSeq(s, 1, Len(p)) = p

\* p in s
Contains(s, p) ==
    \E i \in 1..(Len(s) - Len(p) + 1) : SubSeq(s, i, i + Len(p) - 1) = p

\* s[:-1]
ButLast(s) == IF Len(s) = 0 THEN <<>> ELSE SubSeq(s, 1, Len(s) - 1)

\* \bw\b matches s at position i, case-insensitively (re.IGNORECASE)
WordAt(s, w, i) ==
    /\ i + Len(w) - 1 <= Len(s)
    /\ Lower(SubSeq(s, i, i + Len(w) - 1)) = w
    /\ (i = 1 \/ s[i - 1] \notin WordChars)
    /\ (i + Len(w) - 1 = Len(s) \/ s[i + Len(w)] \notin WordChars)

\* \bw\b matches somewhere in s
HasWord(s, w) == \E i \in 1..Len(s) : WordAt(s, w, i)

-----------------------------------------------------------------------------
(* src/src/query/executor.py                                               *)

FORBIDDEN_WORDS ==
    { <<"i", "n", "s", "e", "r", "t">>,
      <<"u", "p", "d", "a", "t", "e">>,
      <<"d", "e", "l", "e", "t", "e">>,
      <<"d", "r", "o", "p">>,
      <<"a", "l", "t", "e", "r">>,
      <<"t", "r", "u", "n", "c", "a", "t", "e">>,
      <<"c", "r", "e", "a", "t", "e">>,
      <<"r", "e", "p", "l", "a", "c", "e">>,
      <<"g", "r", "a", "n", "t">>,
      <<"r", "e", "v", "o", "k", "e">>,
      <<"a", "t", "t", "a", "c", "h">>,
      <<"d", "e", "t", "a", "c", "h">>,
      <<"p", "r", "a", "g", "m", "a">> }

\* FORBIDDEN_SQL.search(s)
FORBIDDEN_SQL(s) == \E w \in FORBIDDEN_WORDS : HasWord(s, w)

t_select == <<"s", "e", "l", "e", "c", "t">>

\* the messages of the exceptions _validate_sql raises
EmptyQuery == "Empty SQL query"
NotASelect == "Only SELECT queries are allowed"
ForbiddenKeyword == "Forbidden SQL keyword detected"
MultipleStatements == "Multiple SQL statements are not allowed"
\* None.strip(): AttributeError
NoStrip == "'NoneType' object has no attribute 'strip'"
\* _validate_sql returned without raising
Accepted == "accepted"

\* c in s
HasChar(s, c) == \E i \in 1..Len(s) : s[i] = c

\* _validate_sql, lines 21-34, on sql_clean: the message of the ValueError
\* raised, or Accepted
\* Variant: the semicolon rule is applied before the keyword rule
validate_clean_semicolon_first(sql_clean) ==
    IF sql_clean = <<>> THEN EmptyQuery
    ELSE IF ~StartsWith(sql_clean, t_select) THEN NotASelect
    ELSE IF HasChar(ButLast(sql_clean), ";") THEN MultipleStatements
    ELSE IF FORBIDDEN_SQL(sql_clean) THEN ForbiddenKeyword
    ELSE Accepted

\* Variant: a ';' is refused wherever it stands, the final character included
validate_clean_any_semicolon(sql_clean) ==
    IF sql_clean = <<>> THEN EmptyQuery
    ELSE IF ~StartsWith(sql_clean, t_select) THEN NotASelect
    ELSE IF FORBIDDEN_SQL(sql_clean) THEN ForbiddenKeyword
    ELSE IF HasChar(sql_clean, ";") THEN MultipleStatements
    ELSE Accepted

\* Variant: the keyword rule is applied before the SELECT rule
validate_clean_keyword_first(sql_clean) ==
    IF sql_clean = <<>> THEN EmptyQuery
    ELSE IF FORBIDDEN_SQL(sql_clean) THEN ForbiddenKeyword
    ELSE IF ~StartsWith(sql_clean, t_select) THEN NotASelect
    ELSE IF HasChar(ButLast(sql_clean), ";") THEN MultipleStatements
    ELSE Accepted

validate_clean(sql_clean) ==
    IF sql_clean = <<>> THEN EmptyQuery
    ELSE IF ~StartsWith(sql_clean, t_select) THEN NotASelect
    ELSE IF FORBIDDEN_SQL(sql_clean) THEN ForbiddenKeyword
    ELSE IF HasChar(ButLast(sql_clean), ";") THEN MultipleStatements
    ELSE Accepted

\* _validate_sql(sql); sql is None or Some(text)
\* Variant: the validator lets every text pass once the session had an
\* approval
_validate_sql_after_approval(sql) ==
    IF sql = None THEN NoStrip
    ELSE IF approved THEN Accepted
    ELSE validate_clean(Lower(Strip(sql[1])))

_validate_sql(sql) ==
    IF sql = None THEN NoStrip ELSE validate_clean(Lower(Strip(sql[1])))

\* f" LIMIT {limit}" with the default limit
LIMIT_100 == <<" ", "L", "I", "M", "I", "T", " ", "1", "0", "0">>

p_limit == <<" ", "l", "i", "m", "i", "t", " ">>

\* Variant: no row cap is added
enforce_limit_never(s) == s

\* run_sql_query, lines 55-56, on the stripped text
enforce_limit(s) ==
    IF ~Contains(<<" ">> \o Lower(s) \o <<" ">>, p_limit)
    THEN s \o LIMIT_100
    ELSE s

\* run_sql_query, lines 52-56: the statement handed to conn.execute
Normalize(sql) == enforce_limit(RStripSemi(Strip(sql)))

\* A text built at run time (a message, str(e)) is a sequence of its parts;
\* the empty sequence is the empty string.
Txt(part) == <<part>>

\* A cell of a row: an int, a str or a bytes value, with its payload.
Cell(t, v) == [t |-> t, v |-> v]

Row1 == [name |-> Cell("str", "Ann"), total |-> Cell("int", "3")]

Row2 == [name |-> Cell("bytes", "Bob"), total |-> Cell("int", "5")]

\* str(e) of the sqlite3.Error the data store raises
DbError == Txt("no such column: x")

\* What the data store answers to one statement: sqlite3.Error(msg) or rows.
DbOutcomes ==
    { [k |-> "error", error |-> DbError],
      [k |-> "rows", rows |-> <<>>],
      [k |-> "rows", rows |-> <<Row1>>],
      [k |-> "rows", rows |-> <<Row1, Row2>>] }

\* run_sql_query(sql) against a data store that answers db:
\*   raised: the message of the exception that escapes ("" when none does)
\*   validated: the texts _validate_sql accepted in this call
\*   stmts: the statements handed to conn.execute
\*   ret: the dict returned
\* Variant: the statement is executed whatever the validator said
run_unvalidated(sql, db, v) ==
    IF sql = None
    THEN [sql |-> sql, raised |-> v, validated |-> <<>>, stmts |-> <<>>,
          ret |-> [k |-> "none"]]
    ELSE [sql |-> sql, raised |-> "",
          validated |-> IF v = Accepted THEN <<sql[1]>> ELSE <<>>,
          stmts |-> <<Normalize(sql[1])>>,
          ret |-> IF db.k = "error" THEN [error |-> db.error] ELSE [rows |-> db.rows]]

\* Variant: an error of the data store is raised to the caller
run_validated_raising(sql, db, v) ==
    IF v # Accepted
    THEN [sql |-> sql, raised |-> v, validated |-> <<>>, stmts |-> <<>>,
          ret |-> [k |-> "none"]]
    ELSE [sql |-> sql, raised |-> IF db.k = "error" THEN "sqlite3.Error" ELSE "",
          validated |-> <<sql[1]>>,
          stmts |-> <<Normalize(sql[1])>>,
          ret |-> IF db.k = "error" THEN [k |-> "none"] ELSE [rows |-> db.rows]]

run_validated(sql, db, v) ==
    IF v # Accepted
    THEN [sql |-> sql, raised |-> v, validated |-> <<>>, stmts |-> <<>>,
          ret |-> [k |-> "none"]]
    ELSE [sql |-> sql, raised |-> "", validated |-> <<sql[1]>>,
          stmts |-> <<Normalize(sql[1])>>,
          ret |-> IF db.k = "error" THEN [error |-> db.error]
                  ELSE [rows |-> db.rows]]

run_sql_query(sql, db) == run_validated(sql, db, _validate_sql(sql))

-----------------------------------------------------------------------------
(* The validator and the executor exercised alone, on every text of at     *)
(* most MaxToks lexemes.                                                   *)

Lexemes ==
    { <<"s", "e", "l", "e", "c", "t">>,
      <<"S", "E", "L", "E", "C", "T">>,
      <<"d", "r", "o", "p">>,
      <<"l", "i", "m", "i", "t">>,
      <<"x">>,
      <<" ">>,
      <<"\n">>,
      <<";">> }

RECURSIVE Texts(_)
\* the texts made of at most n lexemes
Texts(n) ==
    IF n = 0 THEN {<<>>}
    ELSE LET shorter == Texts(n - 1)
         IN  shorter \cup {t \o l : t \in shorter, l \in Lexemes}

\* texts the validator is given besides the ones built from Lexemes
drop_table_customers ==
    <<"D", "R", "O", "P", " ", "T", "A", "B", "L", "E", " ", "c", "u", "s",
      "t", "o", "m", "e", "r", "s">>

select_then_drop ==
    <<"s", "e", "l", "e", "c", "t", " ", "1", ";", " ", "d", "r", "o", "p",
      " ", "t", "a", "b", "l", "e", " ", "t">>

two_selects ==
    <<"S", "E", "L", "E", "C", "T", " ", "*", " ", "F", "R", "O", "M", " ",
      "a", ";", " ", "S", "E", "L", "E", "C", "T", " ", "*", " ", "F", "R",
      "O", "M", " ", "b">>

select_name ==
    <<"s", "e", "l", "e", "c", "t", " ", "n", "a", "m", "e", " ", "f", "r",
      "o", "m", " ", "c", "u", "s", "t", "o", "m", "e", "r", "s">>

select_orders_limit ==
    <<"s", "e", "l", "e", "c", "t", " ", "*", " ", "f", "r", "o", "m", " ",
      "o", "r", "d", "e", "r", "s", " ", "l", "i", "m", "i", "t", " ", "1",
      "0">>

select_name_newline_limit ==
    <<"s", "e", "l", "e", "c", "t", " ", "n", "a", "m", "e", " ", "f", "r",
      "o", "m", " ", "c", "u", "s", "t", "o", "m", "e", "r", "s", "\n",
      "l", "i", "m", "i", "t", " ", "1", "0">>

select_orders_limit_semi ==
    <<"s", "e", "l", "e", "c", "t", " ", "*", " ", "f", "r", "o", "m", " ",
      "o", "r", "d", "e", "r", "s", " ", "l", "i", "m", "i", "t", " ", "1",
      "0", " ", ";">>

Examples ==
    {drop_table_customers, select_then_drop, two_selects, select_name,
     select_orders_limit, select_name_newline_limit, select_orders_limit_semi}

NotRun ==
    [sql |-> None, raised |-> "", validated |-> <<>>, stmts |-> <<>>,
     ret |-> [k |-> "none"]]

InitValidator ==
    /\ vpc = "start"
    /\ vres = ""
    /\ vrun = NotRun

\* a caller validates the text
CallValidate ==
    /\ vpc = "start"
    /\ vres' = _validate_sql(Some(vsql))
    /\ vpc' = "validated"
    /\ UNCHANGED <<vsql, vrun>>
    /\ UNCHANGED parallel_vars

\* a caller runs the text
CallRunSqlQuery ==
    /\ vpc = "validated"
    /\ \E db \in DbOutcomes : vrun' = run_sql_query(Some(vsql), db)
    /\ vpc' = "ran"
    /\ UNCHANGED <<vsql, vres>>
    /\ UNCHANGED parallel_vars

-----------------------------------------------------------------------------
(* The external collaborators (export writers, matplotlib, the formatting  *)
(* LLM call): each call returns, or raises an exception e; str(e) is empty *)
(* for an exception built without a message.                               *)

Returns == [k |-> "ok"]

Raises(msg) == [k |-> "raise", msg |-> msg]

Outcomes == {Returns, Raises(Txt("boom")), Raises(<<>>)}

\* what a handler called: nothing yet.  trace holds, in the order they
\* happened, "validate" and "execute" for run_sql_query and "export", "chart"
\* or "format" for the collaborator called
NoCalls ==
    [runs |-> 0, ran |-> <<>>, validated |-> <<>>, stmts |-> <<>>, fetched |-> <<>>,
     exports |-> <<>>, charts |-> <<>>, formats |-> <<>>, trace |-> <<>>]

\* the calls of two stretches of a handler, in order
Both(a, b) ==
    [runs |-> a.runs + b.runs,
     ran |-> a.ran \o b.ran,
     validated |-> a.validated \o b.validated,
     stmts |-> a.stmts \o b.stmts,
     fetched |-> a.fetched \o b.fetched,
     exports |-> a.exports \o b.exports,
     charts |-> a.charts \o b.charts,
     formats |-> a.formats \o b.formats,
     trace |-> a.trace \o b.trace]

\* sanitize(val): bytes become text (utf-8, or hex when undecodable)
Undecodable == {"\\xff"}

sanitize(val) ==
    IF val.t = "bytes"
    THEN IF val.v \in Undecodable THEN Cell("str", "ff") ELSE Cell("str", val.v)
    ELSE val

\* [{k: sanitize(v) for k, v in row.items()} for row in rows]
safe_rows(rows) ==
    [i \in 1..Len(rows) |-> [c \in DOMAIN rows[i] |-> sanitize(rows[i][c])]]

-----------------------------------------------------------------------------
(* src/src/export/exporter.py                                              *)

exporters == {"csv", "excel", "pdf"}

\* fmt.upper() of a format name
upper(fmt) ==
    CASE fmt = "csv" -> "CSV"
      [] fmt = "excel" -> "EXCEL"
      [] fmt = "pdf" -> "PDF"
      [] OTHER -> fmt

\* generate_export(rows, fmt); out is what export_fn(rows) and the read do
generate_export(rows, fmt, out) ==
    IF rows = <<>>
    THEN [ret |-> [success |-> FALSE, error |-> Txt("No data to export")],
          calls |-> NoCalls]
    ELSE IF fmt \notin exporters
    THEN [ret |-> [success |-> FALSE, error |-> <<"Unknown format: ", fmt>>],
          calls |-> NoCalls]
    ELSE [ret |-> IF out.k = "ok"
                  THEN [success |-> TRUE,
                        file_data |-> [fmt |-> fmt, rows |-> rows],
                        file_name |-> <<"export.", fmt>>,
                        mime |-> fmt]
                  ELSE [success |-> FALSE, error |-> out.msg],
          calls |-> [NoCalls EXCEPT !.exports = <<[fmt |-> fmt, rows |-> rows]>>,
                             !.trace = <<"export">>]]

-----------------------------------------------------------------------------
(* src/src/charts/generator.py, src/src/charts/themes.py                   *)

CHART_THEMES == {"default", "dark", "professional", "colorful"}

chart_types == {"bar", "line", "pie", "scatter"}

\* df.columns of pd.DataFrame(rows)
Columns(rows) == UNION {DOMAIN rows[i] : i \in 1..Len(rows)}

\* f"{value}" of an optional text: None reads 'None'
Str(opt) == IF opt = None THEN <<"None">> ELSE opt

\* generate_chart, lines 54-131: the figure is drawn from `drawn`
draw_chart(drawn, out) ==
    IF drawn.chart_type \notin chart_types
    THEN [ret |-> [success |-> FALSE,
                   error |-> <<"Unknown chart type: ", drawn.chart_type>>],
          calls |-> [NoCalls EXCEPT !.charts = <<drawn>>, !.trace = <<"chart">>]]
    ELSE IF out.k = "ok"
    THEN [ret |-> [success |-> TRUE, chart_data |-> drawn,
                   file_name |-> Txt("chart.png"), mime |-> "image/png",
                   chart_type |-> drawn.chart_type, title |-> drawn.title,
                   theme |-> drawn.theme],
          calls |-> [NoCalls EXCEPT !.charts = <<drawn>>, !.trace = <<"chart">>]]
    ELSE [ret |-> [success |-> FALSE, error |-> out.msg],
          calls |-> [NoCalls EXCEPT !.charts = <<drawn>>, !.trace = <<"chart">>]]

\* Variant: the chart is drawn without looking for the columns
generate_chart_unchecked(rows, chart_type, x_column, y_column, title, theme, out) ==
    IF rows = <<>> \/ x_column = None \/ y_column = None
    THEN [ret |-> [success |-> FALSE, error |-> Txt("No data to chart")],
          calls |-> NoCalls]
    ELSE draw_chart([rows |-> rows, chart_type |-> chart_type,
                     x_column |-> x_column[1], y_column |-> y_column[1],
                     title |-> IF title # None THEN title
                               ELSE <<y_column[1], " by ", x_column[1]>>,
                     theme |-> IF theme \in CHART_THEMES THEN theme ELSE "default"],
                    out)

\* generate_chart(rows, chart_type, x_column, y_column, title, theme=theme);
\* x_column, y_column and title are None or Some(name); out is what
\* matplotlib does
generate_chart(rows, chart_type, x_column, y_column, title, theme, out) ==
    IF rows = <<>>
    THEN [ret |-> [success |-> FALSE, error |-> Txt("No data to chart")],
          calls |-> NoCalls]
    ELSE IF x_column = None \/ x_column[1] \notin Columns(rows)
    THEN [ret |-> [success |-> FALSE,
                   error |-> <<"Column '">> \o Str(x_column)
                             \o <<"' not found in data">>],
          calls |-> NoCalls]
    ELSE IF y_column = None \/ y_column[1] \notin Columns(rows)
    THEN [ret |-> [success |-> FALSE,
                   error |-> <<"Column '">> \o Str(y_column)
                             \o <<"' not found in data">>],
          calls |-> NoCalls]
    ELSE draw_chart([rows |-> rows, chart_type |-> chart_type,
                     x_column |-> x_column[1], y_column |-> y_column[1],
                     title |-> IF title # None THEN title
                               ELSE <<y_column[1], " by ", x_column[1]>>,
                     theme |-> IF theme \in CHART_THEMES THEN theme ELSE "default"],
                    out)

-----------------------------------------------------------------------------
(* src/src/llm/core.py: format_sql_results                                 *)

\* format_sql_results(original_query, sql, rows); out is what the LLM call
\* does.  raised: whether the exception escapes, with its str in msg
format_sql_results(original_query, sql, rows, out) ==
    IF rows = <<>>
    THEN [raised |-> FALSE, msg |-> <<>>,
          ret |-> [message |-> Txt("The query returned no results."), rows |-> <<>>],
          calls |-> NoCalls]
    ELSE IF out.k = "ok"
    THEN [raised |-> FALSE, msg |-> <<>>,
          ret |-> [message |-> <<"Summary of ", original_query>>,
                   rows |-> safe_rows(rows)],
          calls |-> [NoCalls EXCEPT !.formats = <<rows>>, !.trace = <<"format">>]]
    ELSE [raised |-> TRUE, msg |-> out.msg, ret |-> [k |-> "none"],
          calls |-> [NoCalls EXCEPT !.formats = <<rows>>, !.trace = <<"format">>]]

\* parsed.get(key) of an optional entry: None or Some(value)
Opt(d, key) == IF key \in DOMAIN d THEN Some(d[key]) ELSE None

\* bool(result.get("error")): the key is there and its text is not empty
HasError(d) == "error" \in DOMAIN d /\ d.error # <<>>

-----------------------------------------------------------------------------
(* src/src/ui/handlers.py: execute_sql, execute_sql_and_export,            *)
(* execute_sql_and_chart.  db is what the data store answers, out what the *)
(* collaborator called after it does.  Each returns the dict (ret) and the *)
(* calls it made; r is what run_sql_query(sql) did.                        *)

\* the calls of one run_sql_query: the text validated, the statement
\* executed, the rows fetched
RunCalls(r) ==
    [NoCalls EXCEPT !.runs = 1, !.ran = <<r>>,
                    !.validated = r.validated, !.stmts = r.stmts,
                    !.fetched = IF "rows" \in DOMAIN r.ret THEN <<r.ret.rows>>
                                ELSE <<>>,
                    !.trace = IF r.stmts = <<>> THEN <<"validate">>
                              ELSE <<"validate", "execute">>]

\* execute_sql, lines 26-32
formatted_result(r, formatted) ==
    IF formatted.raised
    THEN [ret |-> [error |-> formatted.msg],
          calls |-> Both(RunCalls(r), formatted.calls)]
    ELSE [ret |-> [success |-> TRUE, message |-> formatted.ret.message,
                   rows |-> formatted.ret.rows],
          calls |-> Both(RunCalls(r), formatted.calls)]

\* execute_sql, lines 15-32
execute_sql_on(r, sql, original_query, out) ==
    IF r.raised # ""
    THEN [ret |-> [error |-> Txt(r.raised)], calls |-> RunCalls(r)]
    ELSE IF HasError(r.ret)
    THEN [ret |-> [error |-> r.ret.error], calls |-> RunCalls(r)]
    ELSE formatted_result(r, format_sql_results(original_query, sql,
                                                Get(r.ret, "rows", <<>>), out))

execute_sql(sql, original_query, db, out) ==
    execute_sql_on(run_sql_query(sql, db), sql, original_query, out)

\* execute_sql_and_export, lines 63-75
exported_result(r, safe, export_result, export_format) ==
    IF ~export_result.ret.success
    THEN [ret |-> [error |-> export_result.ret.error],
          calls |-> Both(RunCalls(r), export_result.calls)]
    ELSE [ret |-> [success |-> TRUE, rows |-> safe,
                   file_data |-> export_result.ret.file_data,
                   file_name |-> export_result.ret.file_name,
                   mime |-> export_result.ret.mime,
                   format |-> export_format],
          calls |-> Both(RunCalls(r), export_result.calls)]

\* execute_sql_and_export, lines 58-75
export_safe(r, safe, export_format, out) ==
    exported_result(r, safe, generate_export(safe, export_format, out), export_format)

\* execute_sql_and_export, lines 38-75
execute_sql_and_export_on(r, export_format, out) ==
    IF r.raised # ""
    THEN [ret |-> [error |-> Txt(r.raised)], calls |-> RunCalls(r)]
    ELSE IF HasError(r.ret)
    THEN [ret |-> [error |-> r.ret.error], calls |-> RunCalls(r)]
    ELSE IF Get(r.ret, "rows", <<>>) = <<>>
    THEN [ret |-> [error |-> Txt("Query returned no results to export.")],
          calls |-> RunCalls(r)]
    ELSE export_safe(r, safe_rows(r.ret.rows), export_format, out)

execute_sql_and_export(sql, original_query, export_format, db, out) ==
    execute_sql_and_export_on(run_sql_query(sql, db), export_format, out)

\* execute_sql_and_chart, lines 124-138
charted_result(r, safe, chart_result, chart_type) ==
    IF ~chart_result.ret.success
    THEN [ret |-> [error |-> chart_result.ret.error],
          calls |-> Both(RunCalls(r), chart_result.calls)]
    ELSE [ret |-> [success |-> TRUE, rows |-> safe,
                   chart_data |-> chart_result.ret.chart_data,
                   file_name |-> chart_result.ret.file_name,
                   mime |-> chart_result.ret.mime,
                   chart_type |-> chart_type,
                   title |-> chart_result.ret.title,
                   theme |-> chart_result.ret.theme],
          calls |-> Both(RunCalls(r), chart_result.calls)]

\* execute_sql_and_chart, lines 108-138
chart_safe(r, safe, chart_type, x_column, y_column, title, theme, out) ==
    charted_result(r, safe,
                   generate_chart(safe, chart_type, x_column, y_column, title,
                                  theme, out),
                   chart_type)

\* execute_sql_and_chart, lines 88-138
execute_sql_and_chart_on(r, chart_type, x_column, y_column, title, theme, out) ==
    IF r.raised # ""
    THEN [ret |-> [error |-> Txt(r.raised)], calls |-> RunCalls(r)]
    ELSE IF HasError(r.ret)
    THEN [ret |-> [error |-> r.ret.error], calls |-> RunCalls(r)]
    ELSE IF Get(r.ret, "rows", <<>>) = <<>>
    THEN [ret |-> [error |-> Txt("Query returned no results to chart.")],
          calls |-> RunCalls(r)]
    ELSE chart_safe(r, safe_rows(r.ret.rows), chart_type, x_column, y_column,
                    title, theme, out)

\* theme is st.session_state.get("chart_theme", "default")
execute_sql_and_chart(sql, original_query, chart_type, x_column, y_column, title, theme, db, out) ==
    execute_sql_and_chart_on(run_sql_query(sql, db), chart_type, x_column,
                             y_column, title, theme, out)

-----------------------------------------------------------------------------
(* src/src/llm/core.py: run_llm.  cls is what the retriever and the        *)
(* classifier (chat_model.invoke) do for this query:                       *)
(*   "raise": one of them raises;  "text": the raw answer is not JSON;     *)
(*   "json": it is JSON but not an object;  "obj": it is the object parsed *)
(* Each result carries the dict returned (ret) and the calls made.         *)

\* Variant: an empty result list counts as data
HasData_not_none(last) == last # None

\* bool(last_results)
HasData(last) == last # None /\ last[1] # <<>>

\* run_llm returns ret
Returned(ret, calls) == [raised |-> FALSE, msg |-> <<>>, ret |-> ret, calls |-> calls]

\* an exception escapes run_llm
Escapes(msg) == [raised |-> TRUE, msg |-> msg, ret |-> [k |-> "none"], calls |-> NoCalls]

\* run_llm, lines 119-130
export_answer(fmt, result) ==
    Returned(IF result.ret.success
             THEN [type |-> "export",
                   answer |-> <<"Here you go! Your ", upper(fmt), " file is ready.">>,
                   file_data |-> result.ret.file_data,
                   file_name |-> result.ret.file_name,
                   mime |-> result.ret.mime]
             ELSE [type |-> "answer",
                   answer |-> <<"Sorry, I couldn't generate the file: ">>
                              \o result.ret.error],
             result.calls)

\* run_llm, lines 142-154
chart_answer(result) ==
    Returned(IF result.ret.success
             THEN [type |-> "chart",
                   answer |-> <<"Here's your ", result.ret.chart_type, " chart: ">>
                              \o result.ret.title,
                   chart_data |-> result.ret.chart_data,
                   file_name |-> result.ret.file_name,
                   mime |-> result.ret.mime,
                   theme |-> result.ret.theme]
             ELSE [type |-> "answer",
                   answer |-> <<"Sorry, I couldn't generate the chart: ">>
                              \o result.ret.error],
             result.calls)

\* run_llm, lines 113-190, on the object parsed
route_parsed(parsed, resp_type, raw, last, out) ==
    IF resp_type = "export" /\ HasData(last)
    THEN export_answer(Get(parsed, "format", "csv"),
                       generate_export(last[1], Get(parsed, "format", "csv"), out))
    ELSE IF resp_type = "chart" /\ HasData(last)
    THEN chart_answer(generate_chart(last[1], Get(parsed, "chart_type", "bar"),
                                     Opt(parsed, "x_column"), Opt(parsed, "y_column"),
                                     Opt(parsed, "title"),
                                     Get(parsed, "theme", "default"), out))
    ELSE IF resp_type = "sql_and_chart"
    THEN Returned([type |-> "sql_and_chart",
                   sql |-> Opt(parsed, "sql"),
                   chart_type |-> Get(parsed, "chart_type", "bar"),
                   x_column |-> Opt(parsed, "x_column"),
                   y_column |-> Opt(parsed, "y_column"),
                   title |-> Opt(parsed, "title"),
                   theme |-> Get(parsed, "theme", "default")], NoCalls)
    ELSE IF resp_type = "sql_and_export"
    THEN Returned([type |-> "sql_and_export",
                   sql |-> Opt(parsed, "sql"),
                   export_format |-> Get(parsed, "format", "csv")], NoCalls)
    ELSE IF resp_type = "sql"
    THEN Returned([type |-> "sql", sql |-> Opt(parsed, "sql")], NoCalls)
    ELSE Returned([type |-> "answer", answer |-> Get(parsed, "content", raw)],
                  NoCalls)

run_llm(query, last, cls, out) ==
    IF cls.k = "raise" THEN Escapes(cls.msg)
    ELSE IF cls.k = "text"
    THEN Returned([type |-> "answer", answer |-> cls.raw], NoCalls)
    ELSE IF cls.k = "json"
    THEN \* parsed.get on an int, a str or a list: AttributeError
         Escapes(Txt("object has no attribute 'get'"))
    ELSE route_parsed(cls.parsed, Get(cls.parsed, "type", "None"), cls.raw, last, out)

-----------------------------------------------------------------------------
(* src/src/state/session.py                                                *)

Greeting ==
    [role |-> "assistant",
     content |-> Txt("Ask me questions about the company data or schema.")]

NoChart ==
    [rows |-> None, type |-> None, x_column |-> None, y_column |-> None,
     title |-> None]

\* the chart theme init_session_state gives a session
chart_theme == "default"

\* add_message(role, content, **kwargs): the message appended
Message(role, content) == [role |-> role, content |-> content]

\* what the last handler did
Did(op, raised, calls, appended, before, result) ==
    [op |-> op, raised |-> raised, calls |-> calls, appended |-> appended,
     before |-> before, result |-> result]

Nothing == [k |-> "none"]

\* init_session_state() on a fresh session
InitSession ==
    /\ messages = <<Greeting>>
    /\ last_results = None
    /\ pending_sql = None
    /\ last_chart = NoChart
    /\ step = Did("init", FALSE, NoCalls, <<>>, None, Nothing)
    /\ origin = 0
    /\ nutter = 0
    /\ submits = 0
    /\ approved = FALSE
    /\ stored = {}
    /\ verdicts = {}

-----------------------------------------------------------------------------
(* What a user types and what the classifier answers.                      *)

Prompts == {"q1", "q2"}

q_plain == <<"s", "e", "l", "e", "c", "t", " ", "x">>

q_semi == <<"s", "e", "l", "e", "c", "t", " ", "1", ";">>

q_drop == <<"D", "R", "O", "P", " ", "t">>

q_stack == <<"s", "e", "l", "e", "c", "t", " ", "1", ";", "d", "r", "o", "p", " ", "t">>

Raw == Txt("raw")

Classified(parsed) == [k |-> "obj", raw |-> Raw, parsed |-> parsed]

\* what the classifier may answer to an utterance
Classifications ==
    { [k |-> "raise", msg |-> Txt("Connection error.")],
      [k |-> "text", raw |-> Raw],
      [k |-> "json", raw |-> Raw],
      Classified([type |-> "message", content |-> Txt("hello")]),
      Classified([type |-> "sql"]),
      Classified([type |-> "sql", sql |-> q_plain]),
      Classified([type |-> "sql", sql |-> q_drop]),
      Classified([type |-> "sql", sql |-> q_stack]),
      Classified([type |-> "sql_and_export", sql |-> q_semi, format |-> "pdf"]),
      Classified([type |-> "sql_and_export", sql |-> q_drop]),
      Classified([type |-> "sql_and_chart", sql |-> q_plain, chart_type |-> "pie",
                  x_column |-> "name", y_column |-> "total", theme |-> "dark"]),
      Classified([type |-> "sql_and_chart", sql |-> q_semi,
                  x_column |-> "missing", y_column |-> "total", title |-> "T"]),
      Classified([type |-> "export", format |-> "csv"]),
      Classified([type |-> "chart", chart_type |-> "line", x_column |-> "name",
                  y_column |-> "total", theme |-> "dark"]),
      Classified([type |-> "chart", x_column |-> "missing", y_column |-> "total"]) }

-----------------------------------------------------------------------------
(* src/main.py, lines 331-372, and src/src/ui/handlers.py:                 *)
(* process_user_input                                                      *)

\* Variant: a new prompt leaves the pending action in place
supersede_keep(pending) == pending

\* main.py, lines 334-335: the pending action a new prompt leaves
supersede(pending) == None

\* Variant: process_user_input stores no pending action
Processed_nothing_stored(r, type, appended, pending) ==
    [raised |-> r.raised, calls |-> r.calls, type |-> type, result |-> r.ret,
     appended |-> appended, stored |-> None]

\* what process_user_input did: the messages it appended, the pending
\* action it stored (None: it stored none), whether run_llm raised
Processed(r, type, appended, pending) ==
    [raised |-> r.raised, calls |-> r.calls, type |-> type, result |-> r.ret,
     appended |-> appended, stored |-> pending]

\* process_user_input, lines 181-244
route(user, prompt, r, result, response_type) ==
    IF r.raised
    THEN Processed(r, "None", <<user>>, None)
    ELSE IF response_type = "export"
    THEN Processed(r, response_type,
             <<user, [role |-> "assistant", content |-> result.answer,
                      file_data |-> result.file_data,
                      file_name |-> result.file_name,
                      file_mime |-> result.mime]>>,
             None)
    ELSE IF response_type = "chart"
    THEN Processed(r, response_type,
             <<user, [role |-> "assistant", content |-> result.answer,
                      chart_data |-> result.chart_data,
                      file_name |-> result.file_name,
                      file_mime |-> result.mime]>>,
             None)
    ELSE IF response_type = "sql_and_chart"
    THEN Processed(r, response_type, <<user>>,
             Some([sql |-> result.sql, original_query |-> prompt,
                   chart_type |-> result.chart_type,
                   x_column |-> result.x_column,
                   y_column |-> result.y_column,
                   title |-> result.title,
                   auto_chart |-> TRUE]))
    ELSE IF response_type = "sql_and_export"
    THEN Processed(r, response_type, <<user>>,
             Some([sql |-> result.sql, original_query |-> prompt,
                   export_format |-> result.export_format,
                   auto_export |-> TRUE]))
    ELSE IF response_type = "sql"
    THEN Processed(r, response_type, <<user>>,
             Some([sql |-> result.sql, original_query |-> prompt]))
    ELSE Processed(r, response_type,
             <<user, [role |-> "assistant", content |-> result.answer]>>,
             None)

\* process_user_input, lines 175-244, on what run_llm did
process_result(prompt, r) ==
    route(Message("user", Txt(prompt)), prompt, r, r.ret,
          Get(r.ret, "type", "answer"))

process_user_input(last, prompt, cls, out) ==
    process_result(prompt, run_llm(prompt, last, cls, out))

\* the session after the chat input handled a prompt: left is the pending
\* action after lines 334-335, p what process_user_input did
Uttered(prompt, cls, left, p) ==
    /\ messages' = messages \o p.appended
    /\ pending_sql' = IF p.stored # None THEN p.stored ELSE left
    /\ step' = Did("utter", p.raised, p.calls, p.appended, pending_sql,
                   [type |-> p.type, prompt |-> prompt, ret |-> p.result,
                    cls |-> cls, left |-> left])
    /\ origin' = IF p.stored # None THEN nutter + 1
                 ELSE IF left = None THEN 0 ELSE origin
    /\ submits' = IF p.stored # None \/ left = None THEN 0 ELSE submits

\* the chat input receives a prompt
ChatInput ==
    /\ nutter < MaxUtter
    /\ \E prompt \in Prompts, cls \in Classifications, out \in Outcomes :
         Uttered(prompt, cls, supersede(pending_sql),
                 process_user_input(last_results, prompt, cls, out))
    /\ nutter' = nutter + 1
    /\ UNCHANGED <<last_results, last_chart, approved, stored, verdicts>>
    /\ UNCHANGED <<validator_vars, parallel_vars>>

-----------------------------------------------------------------------------
(* src/src/ui/handlers.py: handle_sql_approval                             *)

Failed(error) ==
    [role |-> "assistant", content |-> <<"SQL execution failed: ">> \o error]

Denied == [role |-> "assistant", content |-> Txt("SQL execution denied.")]

\* the session after handle_sql_approval(True).  raised: a KeyError escapes,
\* and the lines after it (319 among them) do not run
After(appended, last, chart, pending, raised, calls, ok) ==
    [appended |-> appended, last_results |-> last, last_chart |-> chart,
     pending_sql |-> pending, raised |-> raised, calls |-> calls, ok |-> ok]

\* lines 277-282: the chart parameters kept for customization
kept_chart(pending, rows) ==
    [rows |-> Some(rows),
     type |-> Some(Get(pending, "chart_type", "bar")),
     x_column |-> pending.x_column,
     y_column |-> pending.y_column,
     title |-> pending.title]

\* handle_sql_approval, lines 261-290
approve_chart(pending, e, result, rows) ==
    IF HasError(result)
    THEN After(<<Failed(result.error)>>, last_results, last_chart, None,
               FALSE, e.calls, FALSE)
    ELSE IF "chart_type" \notin DOMAIN result
    THEN After(<<>>, Some(rows), kept_chart(pending, rows), Some(pending),
               TRUE, e.calls, FALSE)
    ELSE After(<<[role |-> "assistant",
                  content |-> <<"Here's your ", result.chart_type,
                                " chart with ", ToString(Len(rows)),
                                " data points.">>,
                  chart_data |-> result.chart_data,
                  file_name |-> result.file_name,
                  file_mime |-> result.mime]>>,
               Some(rows), kept_chart(pending, rows), None,
               FALSE, e.calls, TRUE)

\* handle_sql_approval, lines 291-305
approve_export(pending, export_format, e, result, rows) ==
    IF HasError(result)
    THEN After(<<Failed(result.error)>>, last_results, last_chart, None,
               FALSE, e.calls, FALSE)
    ELSE IF "rows" \notin DOMAIN result
    THEN After(<<>>, Some(rows), last_chart, Some(pending), TRUE, e.calls, FALSE)
    ELSE After(<<[role |-> "assistant",
                  content |-> <<"Here you go! Your ", upper(export_format),
                                " file with ", ToString(Len(rows)),
                                " rows is ready.">>,
                  file_data |-> result.file_data,
                  file_name |-> result.file_name,
                  file_mime |-> result.mime]>>,
               Some(rows), last_chart, None, FALSE, e.calls, TRUE)

\* handle_sql_approval, lines 306-314
approve_sql(e, result) ==
    IF HasError(result)
    THEN After(<<Failed(result.error)>>, last_results, last_chart, None,
               FALSE, e.calls, FALSE)
    ELSE After(<<[role |-> "assistant",
                  content |-> Get(result, "message", Txt("Query executed."))]>>,
               Some(Get(result, "rows", <<>>)), last_chart, None,
               FALSE, e.calls, "success" \in DOMAIN result)

chart_approved(pending, e) ==
    approve_chart(pending, e, e.ret, Get(e.ret, "rows", <<>>))

export_approved(pending, export_format, e) ==
    approve_export(pending, export_format, e, e.ret, Get(e.ret, "rows", <<>>))

\* handle_sql_approval(True) with a pending action, lines 254-319
\* Variant: every pending action is run as plain SQL, whatever it asks for
approve_as_plain_sql(pending, db, out) ==
    approve_sql(execute_sql(pending.sql, pending.original_query, db, out),
                execute_sql(pending.sql, pending.original_query, db, out).ret)

approve(pending, db, out) ==
    IF Get(pending, "auto_chart", FALSE)
    THEN chart_approved(pending,
             execute_sql_and_chart(pending.sql, pending.original_query,
                 Get(pending, "chart_type", "bar"), pending.x_column,
                 pending.y_column, pending.title, chart_theme, db, out))
    ELSE IF Get(pending, "auto_export", FALSE)
    THEN export_approved(pending, Get(pending, "export_format", "csv"),
             execute_sql_and_export(pending.sql, pending.original_query,
                 Get(pending, "export_format", "csv"), db, out))
    ELSE approve_sql(execute_sql(pending.sql, pending.original_query, db, out),
                     execute_sql(pending.sql, pending.original_query, db, out).ret)

\* what a run_sql_query call decided: accepted or the reason, and the
\* statement it made of the text
Verdict(r) == [sql |-> r.sql, raised |-> r.raised, stmts |-> r.stmts]

\* the session after handle_sql_approval(True) did a, the data store
\* answering db
Approved(a, db) ==
    /\ messages' = messages \o a.appended
    /\ last_results' = a.last_results
    /\ last_chart' = a.last_chart
    /\ pending_sql' = a.pending_sql
    /\ step' = Did("approve", a.raised, a.calls, a.appended, pending_sql,
                   [ok |-> a.ok, submits |-> submits, origin |-> origin, db |-> db,
                    last_results |-> last_results, last_chart |-> last_chart,
                    seen |-> verdicts])
    /\ verdicts' = verdicts \cup {Verdict(a.calls.ran[i]) : i \in 1..Len(a.calls.ran)}
    /\ submits' = IF a.pending_sql = None THEN 0
                  ELSE IF submits < MaxSubmits THEN submits + 1
                  ELSE submits
    /\ approved' = TRUE
    /\ stored' = IF a.ok THEN stored \cup {a.last_results[1]} ELSE stored
    /\ origin' = IF a.pending_sql = None THEN 0 ELSE origin

\* the Allow & Run button: handle_sql_approval(True)
Approve ==
    /\ \E db \in DbOutcomes, out \in Outcomes :
         IF pending_sql = None
         THEN /\ step' = Did("approve", FALSE, NoCalls, <<>>, None, Nothing)
              /\ UNCHANGED <<messages, last_results, pending_sql, last_chart,
                             submits, approved, stored, origin, verdicts>>
         ELSE Approved(approve(pending_sql[1], db, out), db)
    /\ UNCHANGED nutter
    /\ UNCHANGED <<validator_vars, parallel_vars>>

\* Variant: denying leaves the pending action in place
Deny_keeps ==
    /\ IF pending_sql = None
       THEN /\ step' = Did("deny", FALSE, NoCalls, <<>>, None, Nothing)
            /\ UNCHANGED messages
       ELSE /\ messages' = Append(messages, Denied)
            /\ step' = Did("deny", FALSE, NoCalls, <<Denied>>, pending_sql, Nothing)
    /\ UNCHANGED <<pending_sql, origin, submits>>
    /\ UNCHANGED <<last_results, last_chart, nutter, approved, stored, verdicts>>
    /\ UNCHANGED <<validator_vars, parallel_vars>>

\* the Deny button: handle_sql_approval(False)
Deny ==
    /\ IF pending_sql = None
       THEN /\ step' = Did("deny", FALSE, NoCalls, <<>>, None, Nothing)
            /\ UNCHANGED messages
       ELSE /\ messages' = Append(messages, Denied)
            /\ step' = Did("deny", FALSE, NoCalls, <<Denied>>, pending_sql, Nothing)
    /\ pending_sql' = None
    /\ origin' = 0
    /\ submits' = 0
    /\ UNCHANGED <<last_results, last_chart, nutter, approved, stored, verdicts>>
    /\ UNCHANGED <<validator_vars, parallel_vars>>

\* Variant: clearing the chat keeps the last results
ClearChat_keeps_results ==
    /\ messages' = <<Greeting>>
    /\ pending_sql' = None
    /\ last_chart' = [last_chart EXCEPT !.rows = None]
    /\ step' = Did("clear", FALSE, NoCalls, <<>>, pending_sql, Nothing)
    /\ origin' = 0
    /\ submits' = 0
    /\ stored' = {}
    /\ UNCHANGED <<last_results, nutter, approved, verdicts>>
    /\ UNCHANGED <<validator_vars, parallel_vars>>

\* the Clear Chat button: clear_chat()
ClearChat ==
    /\ messages' = <<Greeting>>
    /\ last_results' = None
    /\ pending_sql' = None
    /\ last_chart' = [last_chart EXCEPT !.rows = None]
    /\ step' = Did("clear", FALSE, NoCalls, <<>>, pending_sql, Nothing)
    /\ origin' = 0
    /\ submits' = 0
    /\ stored' = {}
    /\ UNCHANGED <<nutter, approved, verdicts>>
    /\ UNCHANGED <<validator_vars, parallel_vars>>

\* init_session_state, lines 8-32: the defaults of the keys followed
defaults ==
    [messages |-> <<Greeting>>, last_results |-> None, pending_sql |-> None,
     last_chart_rows |-> None, last_chart_type |-> None,
     last_chart_x_column |-> None, last_chart_y_column |-> None,
     last_chart_title |-> None]

\* st.session_state as the variables hold it
session_state ==
    [messages |-> messages, last_results |-> last_results,
     pending_sql |-> pending_sql,
     last_chart_rows |-> last_chart.rows, last_chart_type |-> last_chart.type,
     last_chart_x_column |-> last_chart.x_column,
     last_chart_y_column |-> last_chart.y_column,
     last_chart_title |-> last_chart.title]

\* init_session_state() on a session that holds state: the session after it
\* Variant: every key is given its default
init_session_state_resets(state) ==
    [key \in DOMAIN defaults \cup DOMAIN state |->
        IF key \in DOMAIN defaults THEN defaults[key] ELSE state[key]]

init_session_state(state) ==
    [key \in DOMAIN defaults \cup DOMAIN state |->
        IF key \notin DOMAIN state THEN defaults[key] ELSE state[key]]

\* the variables take the values of the session dict
Reran(state) ==
    /\ messages' = state.messages
    /\ last_results' = state.last_results
    /\ pending_sql' = state.pending_sql
    /\ last_chart' = [rows |-> state.last_chart_rows,
                      type |-> state.last_chart_type,
                      x_column |-> state.last_chart_x_column,
                      y_column |-> state.last_chart_y_column,
                      title |-> state.last_chart_title]

\* the script is run again (st.rerun, or any widget event): it calls
\* init_session_state() on the session as it is
Rerun ==
    /\ Reran(init_session_state(session_state))
    /\ step' = Did("rerun", FALSE, NoCalls, <<>>, pending_sql, Nothing)
    /\ UNCHANGED <<origin, nutter, submits, approved, stored, verdicts>>
    /\ UNCHANGED <<validator_vars, parallel_vars>>

-----------------------------------------------------------------------------
(* src/src/ui/components.py, lines 132-142 and handlers.py:                *)
(* regenerate_chart_with_options                                           *)

\* chart_row_limit as init_session_state sets it
chart_row_limit == 25

\* rows[:n]
Take(rows, n) == SubSeq(rows, 1, IF n < Len(rows) THEN n ELSE Len(rows))

\* regenerate_chart_with_options, line 172
regenerated(chart_result) ==
    [ret |-> IF chart_result.ret.success THEN Some(chart_result.ret) ELSE None,
     calls |-> chart_result.calls]

\* regenerate_chart_with_options(): the chart result, or None
regenerate_chart_with_options(chart, out) ==
    IF chart.rows = None \/ chart.rows[1] = <<>>
    THEN [ret |-> None, calls |-> NoCalls]
    ELSE IF chart.x_column = None \/ chart.y_column = None
    THEN [ret |-> None, calls |-> NoCalls]
    ELSE regenerated(generate_chart(Take(chart.rows[1], chart_row_limit),
                                    chart.type[1], chart.x_column, chart.y_column,
                                    chart.title, chart_theme, out))

\* a message rendered with its chart, under which the customization shows
ShowsChart(m) == "chart_data" \in DOMAIN m

\* components.py, lines 135-142
Regenerated(g, last) ==
    /\ messages' =
           IF g.ret = None THEN messages
           ELSE [messages EXCEPT ![Len(messages)] =
                    [chart_data |-> g.ret[1].chart_data,
                     file_name |-> g.ret[1].file_name] @@ last]
    /\ step' = Did("regenerate", FALSE, g.calls, <<>>, pending_sql,
                   [ok |-> g.ret # None])

\* the Regenerate Chart button
Regenerate ==
    /\ \E i \in 1..Len(messages) : ShowsChart(messages[i])
    /\ last_chart.rows # None /\ last_chart.rows[1] # <<>>
    /\ \E out \in Outcomes :
         Regenerated(regenerate_chart_with_options(last_chart, out),
                     messages[Len(messages)])
    /\ UNCHANGED <<last_results, pending_sql, last_chart>>
    /\ UNCHANGED <<origin, nutter, submits, approved, stored, verdicts>>
    /\ UNCHANGED <<validator_vars, parallel_vars>>

-----------------------------------------------------------------------------
(* Sessions served in parallel.  Streamlit runs the script of each session *)
(* in a thread of its own and the threads share the process: the module    *)
(* constant EXPORTS_DIR, the clock and the data store.  Each session here  *)
(* approves a pending sql_and_export action, and the steps are the points  *)
(* at which the threads can interleave: run_sql_query, executor.py lines   *)
(* 50-75, then export_to_csv / _excel / _pdf, exporter.py lines 19-27, and *)
(* the read of generate_export, lines 110-111.                             *)

Sessions == {1, 2}

\* seconds the clock advances while the sessions run
MaxClock == 1
\* approvals one session makes
MaxCalls == 2

\* the rows the data store holds for the query of each session
RowsOf(s) == IF s = 1 THEN <<Row1>> ELSE <<Row2, Row1>>

\* what the data store answers to the statement of session s
DbAnswers(s) ==
    { [k |-> "error", error |-> DbError],
      [k |-> "rows", rows |-> <<>>],
      [k |-> "rows", rows |-> RowsOf(s)] }

\* EXPORTS_DIR / f"export_{datetime.now().strftime('%Y%m%d_%H%M%S')}.csv":
\* the path is made of the second and the extension of the format
export_path(now, fmt) == [stamp |-> now, ext |-> fmt]

\* open(filepath, "w"): the file is created empty, or truncated
truncated(dir, path) ==
    [p \in DOMAIN dir \cup {path} |-> IF p = path THEN <<>> ELSE dir[p]]

\* what a file holds after a handle opened at offset 0 wrote data over it
Overlay(old, data) == data \o SubSeq(old, Len(data) + 1, Len(old))

\* the with block is left: the lines written are flushed to the file
written(dir, path, data) == [dir EXCEPT ![path] = Overlay(dir[path], data)]

\* the connections open once the try statement of run_sql_query is left;
\* failed: conn.execute raised sqlite3.Error
\* Variant: conn.close() stands at the end of the try block, not in finally
after_call_close_in_try(open, conn, failed) ==
    IF failed THEN open ELSE open \ {conn}

after_call(open, conn, failed) == open \ {conn}

\* the locals of a session before its approval starts
Waiting(sql, fmt, calls) ==
    [pc |-> "start", sql |-> sql, fmt |-> fmt, calls |-> calls, conn |-> 0,
     result |-> Nothing, filepath |-> None, file_data |-> None]

\* no session runs beside the one followed
NoSessions ==
    /\ clock = 0
    /\ exports_dir = <<>>
    /\ conns = {}
    /\ opened = 0
    /\ sess = <<>>

InitParallel ==
    /\ clock = 0
    /\ exports_dir = <<>>
    /\ conns = {}
    /\ opened = 0
    /\ sess \in [Sessions -> {Waiting(sql, fmt, 1) : sql \in {q_plain, q_drop},
                                                     fmt \in {"csv", "pdf"}}]

\* run_sql_query, line 50; execute_sql_and_export, lines 74-75
PValidated(s, me, v) ==
    /\ sess' = [sess EXCEPT ![s] =
                   IF v = Accepted
                   THEN [me EXCEPT !.pc = "connect"]
                   ELSE [me EXCEPT !.pc = "done", !.result = [error |-> Txt(v)]]]
    /\ UNCHANGED <<clock, exports_dir, conns, opened>>

PValidate(s) ==
    /\ sess[s].pc = "start"
    /\ PValidated(s, sess[s], _validate_sql(Some(sess[s].sql)))

\* run_sql_query, lines 62-63: sqlite3.connect makes a connection of its own
PConnect(s) ==
    /\ sess[s].pc = "connect"
    /\ opened' = opened + 1
    /\ conns' = conns \cup {opened + 1}
    /\ sess' = [sess EXCEPT ![s].pc = "execute", ![s].conn = opened + 1]
    /\ UNCHANGED <<clock, exports_dir>>

\* run_sql_query, lines 66-72
PExecute(s) ==
    /\ sess[s].pc = "execute"
    /\ sess[s].conn \in conns
    /\ \E db \in DbAnswers(s) :
         sess' = [sess EXCEPT ![s].pc = "close",
                              ![s].result = IF db.k = "error"
                                            THEN [error |-> db.error]
                                            ELSE [rows |-> db.rows]]
    /\ UNCHANGED <<clock, exports_dir, conns, opened>>

\* execute_sql_and_export, lines 40-47, on what run_sql_query returned
PReturned(s, me) ==
    sess' = [sess EXCEPT ![s] =
                IF HasError(me.result)
                THEN [me EXCEPT !.pc = "done", !.conn = 0]
                ELSE IF Get(me.result, "rows", <<>>) = <<>>
                THEN [me EXCEPT !.pc = "done", !.conn = 0,
                         !.result = [error |-> Txt("Query returned no results to export.")]]
                ELSE [me EXCEPT !.pc = "name", !.conn = 0]]

\* run_sql_query, lines 74-75, and the return to execute_sql_and_export
PClose(s) ==
    /\ sess[s].pc = "close"
    /\ conns' = after_call(conns, sess[s].conn, "error" \in DOMAIN sess[s].result)
    /\ PReturned(s, sess[s])
    /\ UNCHANGED <<clock, exports_dir, opened>>

\* export_to_csv, lines 19-20
PName(s) ==
    /\ sess[s].pc = "name"
    /\ sess' = [sess EXCEPT ![s].pc = "open",
                            ![s].filepath = Some(export_path(clock, sess[s].fmt))]
    /\ UNCHANGED <<clock, exports_dir, conns, opened>>

\* export_to_csv, line 22
POpen(s) ==
    /\ sess[s].pc = "open"
    /\ exports_dir' = truncated(exports_dir, sess[s].filepath[1])
    /\ sess' = [sess EXCEPT ![s].pc = "write"]
    /\ UNCHANGED <<clock, conns, opened>>

\* export_to_csv, lines 23-27, on the sanitized rows
PWrite(s) ==
    /\ sess[s].pc = "write"
    /\ exports_dir' = written(exports_dir, sess[s].filepath[1],
                              safe_rows(sess[s].result.rows))
    /\ sess' = [sess EXCEPT ![s].pc = "read"]
    /\ UNCHANGED <<clock, conns, opened>>

\* generate_export, lines 110-118
PRead(s) ==
    /\ sess[s].pc = "read"
    /\ sess' = [sess EXCEPT ![s].pc = "done",
                            ![s].file_data = Some(exports_dir[sess[s].filepath[1]])]
    /\ UNCHANGED <<clock, exports_dir, conns, opened>>

\* the session approves its next pending action
PAgain(s) ==
    /\ sess[s].pc = "done"
    /\ sess[s].calls < MaxCalls
    /\ sess' = [sess EXCEPT ![s] = Waiting(sess[s].sql, sess[s].fmt, sess[s].calls + 1)]
    /\ UNCHANGED <<clock, exports_dir, conns, opened>>

\* a second passes
Tick ==
    /\ clock < MaxClock
    /\ clock' = clock + 1
    /\ UNCHANGED <<exports_dir, conns, opened, sess>>

-----------------------------------------------------------------------------
(* The session: every handler runs to completion before the next one.      *)

Init ==
    /\ InitSession
    /\ vsql = <<>>
    /\ InitValidator
    /\ NoSessions

Next == ChatInput \/ Approve \/ Deny \/ ClearChat \/ Regenerate \/ Rerun

Spec == Init /\ [][Next]_vars

(* The validator and the executor alone, on every text.                    *)

InitV ==
    /\ InitSession
    /\ vsql \in Texts(MaxToks) \cup Examples
    /\ InitValidator
    /\ NoSessions

NextV ==
    \/ CallValidate /\ UNCHANGED <<session_vars, history_vars>>
    \/ CallRunSqlQuery /\ UNCHANGED <<session_vars, history_vars>>

SpecV == InitV /\ [][NextV]_vars

(* Two sessions approving in parallel.                                     *)

InitP ==
    /\ InitSession
    /\ vsql = <<>>
    /\ InitValidator
    /\ InitParallel

\* what the steps of the parallel sessions leave alone
followed_vars == <<session_vars, history_vars, validator_vars>>

NextP ==
    \/ \E s \in Sessions : PValidate(s) /\ UNCHANGED followed_vars
    \/ \E s \in Sessions : PConnect(s) /\ UNCHANGED followed_vars
    \/ \E s \in Sessions : PExecute(s) /\ UNCHANGED followed_vars
    \/ \E s \in Sessions : PClose(s) /\ UNCHANGED followed_vars
    \/ \E s \in Sessions : PName(s) /\ UNCHANGED followed_vars
    \/ \E s \in Sessions : POpen(s) /\ UNCHANGED followed_vars
    \/ \E s \in Sessions : PWrite(s) /\ UNCHANGED followed_vars
    \/ \E s \in Sessions : PRead(s) /\ UNCHANGED followed_vars
    \/ \E s \in Sessions : PAgain(s) /\ UNCHANGED followed_vars
    \/ Tick /\ UNCHANGED followed_vars

SpecP == InitP /\ [][NextP]_vars

-----------------------------------------------------------------------------
(* Properties of the approval gate and of the validator.                   *)

\* the trimmed, lower-cased form the rules of the validator speak of
Clean(sql) == Lower(Strip(sql))

\* the result types that carry SQL
SqlTypes == {"sql", "sql_and_export", "sql_and_chart"}

\* C1: a statement is handed to the data store only when the validator
\* accepted its text in the same run_sql_query call, the statement being that
\* text normalized; so every statement executed starts with select (trimmed,
\* whatever the case), holds no denylisted keyword as a whole word, and no ';'.
C1_ExecutedOnlyIfValidated ==
    /\ Len(step.calls.stmts) <= step.calls.runs
    /\ Len(step.calls.stmts) = Len(step.calls.validated)
    /\ \A i \in 1..Len(step.calls.stmts) :
         /\ step.calls.stmts[i] = Normalize(step.calls.validated[i])
         /\ StartsWith(Clean(step.calls.stmts[i]), t_select)
         /\ ~FORBIDDEN_SQL(step.calls.stmts[i])
         /\ ~HasChar(step.calls.stmts[i], ";")

\* C1: an approval hands the statement of "select 1;" to the data store
C1_Witness ==
    /\ step.op = "approve"
    /\ step.before # None
    /\ step.before[1].sql = Some(q_semi)
    /\ Len(step.calls.stmts) = 1

\* C2: after process_user_input handled an utterance classified as sql,
\* sql_and_export or sql_and_chart, the pending action holds the SQL of the
\* result, the utterance as original_query and the export or chart request,
\* and nothing was executed or rendered; for every other result type no
\* pending action was created.
C2_SqlIntentsBecomePending ==
    step.op = "utter" =>
        IF step.result.type \in SqlTypes
        THEN /\ pending_sql # None
             /\ pending_sql[1].sql = step.result.ret.sql
             /\ pending_sql[1].original_query = step.result.prompt
             /\ step.result.type = "sql_and_export" =>
                    /\ Get(pending_sql[1], "auto_export", FALSE)
                    /\ pending_sql[1].export_format = step.result.ret.export_format
             /\ step.result.type = "sql_and_chart" =>
                    /\ Get(pending_sql[1], "auto_chart", FALSE)
                    /\ pending_sql[1].chart_type = step.result.ret.chart_type
                    /\ pending_sql[1].x_column = step.result.ret.x_column
                    /\ pending_sql[1].y_column = step.result.ret.y_column
                    /\ pending_sql[1].title = step.result.ret.title
             /\ step.result.type = "sql" =>
                    DOMAIN pending_sql[1] = {"sql", "original_query"}
             /\ step.calls = NoCalls
        ELSE pending_sql = None \/ origin # nutter

\* C2: an utterance classified as sql_and_chart left a pending action
C2_Witness ==
    /\ step.op = "utter"
    /\ step.result.type = "sql_and_chart"
    /\ pending_sql # None
    /\ pending_sql[1].original_query = "q2"

\* C3: denying a pending action calls neither the executor nor a renderer,
\* appends the notice 'SQL execution denied.' and leaves no pending action.
C3_DenyExecutesNothing ==
    step.op = "deny" /\ step.before # None =>
        /\ step.calls = NoCalls
        /\ ~step.raised
        /\ step.appended = <<Denied>>
        /\ messages[Len(messages)].content = Txt("SQL execution denied.")
        /\ pending_sql = None

\* C3: a pending action was denied
C3_Witness ==
    /\ step.op = "deny"
    /\ step.before # None
    /\ step.before[1].sql = Some(q_plain)

\* C4: a new utterance discards the pending action whatever it is classified
\* as, a classifier failure included; the pending action there is afterwards
\* is the one of the newest utterance, so an approval runs the SQL of the
\* newest utterance or nothing.
C4_NewUtteranceSupersedes ==
    /\ pending_sql # None => origin = nutter
    /\ step.op = "utter" /\ (step.raised \/ step.result.type \notin SqlTypes) =>
           pending_sql = None
    /\ step.op = "approve" /\ step.calls.runs > 0 =>
           /\ step.result.origin = nutter
           /\ \A i \in 1..Len(step.calls.validated) :
                  Some(step.calls.validated[i]) = step.before[1].sql

\* C4: a pending action was discarded by an utterance the classifier failed on
C4_Witness ==
    /\ step.op = "utter"
    /\ step.before # None
    /\ step.raised
    /\ pending_sql = None

\* C5: the SQL of a pending action is submitted to the executor at most once,
\* and an approve or deny that finds no pending action executes nothing and
\* appends nothing.
C5_SubmittedAtMostOnce ==
    /\ step.op = "approve" /\ step.calls.runs > 0 => step.result.submits = 0
    /\ step.op \in {"approve", "deny"} /\ step.before = None =>
           step.calls = NoCalls /\ step.appended = <<>>

\* C6: after an approval of a pending action no exception escaped, no action
\* is pending, exactly one assistant message was appended, and when the
\* approval did not succeed that message is 'SQL execution failed: ' and the
\* error text.
C6_ApproveAlwaysSettles ==
    step.op = "approve" /\ step.before # None =>
        /\ ~step.raised
        /\ pending_sql = None
        /\ Len(step.appended) = 1
        /\ step.appended[1].role = "assistant"
        /\ ~step.result.ok =>
               step.appended[1].content[1] = "SQL execution failed: "

\* C7: an export or a chart is rendered only inside an approval, from the
\* rows the validated statement fetched, or by an utterance or a chart
\* regeneration, from rows an earlier successful approval stored since the
\* last clear; never in a session without an approval.
C7_RenderedOnlyFromApprovedRows ==
    LET rendered == step.calls.exports \o step.calls.charts
    IN  \A i \in 1..Len(rendered) :
            /\ approved
            /\ step.op \in {"approve", "utter", "regenerate"}
            /\ step.op = "approve" =>
                   /\ step.before # None
                   /\ step.calls.validated # <<>>
                   /\ step.calls.stmts # <<>>
                   /\ step.calls.fetched # <<>>
                   /\ rendered[i].rows = safe_rows(step.calls.fetched[1])
            /\ step.op = "utter" =>
                   /\ step.calls.runs = 0
                   /\ rendered[i].rows \in stored
            /\ step.op = "regenerate" =>
                   /\ step.calls.runs = 0
                   /\ \E rows \in stored :
                          rendered[i].rows = Take(rows, chart_row_limit)

\* C7: an utterance classified as export rendered the stored rows
C7_Witness ==
    /\ step.op = "utter"
    /\ step.calls.exports # <<>>
    /\ step.calls.exports[1].rows \in stored

\* C8: a pending action holds SQL that the validator accepts: it was
\* validated when the intent was classified, before it was stored.
C8_PendingWasValidated ==
    pending_sql # None => _validate_sql(pending_sql[1].sql) = Accepted

\* the four rules of the validator, in the order stated
RuleFails(i, sql_clean) ==
    CASE i = 1 -> sql_clean = <<>>
      [] i = 2 -> ~StartsWith(sql_clean, t_select)
      [] i = 3 -> FORBIDDEN_SQL(sql_clean)
      [] i = 4 -> HasChar(ButLast(sql_clean), ";")

Reasons == <<EmptyQuery, NotASelect, ForbiddenKeyword, MultipleStatements>>

FailingRules(sql_clean) == {i \in 1..4 : RuleFails(i, sql_clean)}

\* C9: the validator reports the reason of the first rule that fails, in the
\* order EmptyQuery, NotASelect, ForbiddenKeyword, MultipleStatements, and
\* accepts exactly the texts no rule fails on; 'select 1; drop table t' is
\* rejected as ForbiddenKeyword.
C9_FirstFailingRule ==
    vpc # "start" =>
        /\ IF FailingRules(Clean(vsql)) = {}
           THEN vres = Accepted
           ELSE vres = Reasons[Least(FailingRules(Clean(vsql)))]
        /\ vsql = select_then_drop => vres = ForbiddenKeyword

\* C9: a text that fails both the keyword and the semicolon rule was validated
C9_Witness ==
    /\ vpc = "validated"
    /\ FailingRules(Clean(vsql)) = {3, 4}
    /\ vres = ForbiddenKeyword

\* a text that begins with a denylisted keyword
BeginsWithForbidden(sql) ==
    \E w \in FORBIDDEN_WORDS : Clean(sql) # <<>> /\ WordAt(Clean(sql), w, 1)

\* C10 as stated: 'DROP TABLE customers', and any text that begins with a
\* denylisted keyword, is rejected with the reason ForbiddenKeyword.
C10_AsStated ==
    vpc # "start" /\ BeginsWithForbidden(vsql) => vres = ForbiddenKeyword

\* C10: 'DROP TABLE customers', and any text that begins with a denylisted
\* keyword, is rejected with the reason NotASelect, the rule that comes
\* before the keyword rule.
C10_RejectedAsNotASelect ==
    /\ BeginsWithForbidden(drop_table_customers)
    /\ vpc # "start" /\ BeginsWithForbidden(vsql) => vres = NotASelect

\* C10: 'DROP TABLE customers' was validated
C10_Witness ==
    /\ vpc = "validated"
    /\ vsql = drop_table_customers
    /\ vres = NotASelect

\* C11: a text that starts with select and holds no denylisted keyword is
\* rejected with MultipleStatements exactly when a ';' stands in the trimmed
\* text before its final character, and is accepted otherwise: a single
\* trailing ';', followed by whitespace or not, is accepted, and
\* 'SELECT * FROM a; SELECT * FROM b' is rejected with MultipleStatements.
C11_InnerSemicolonRejected ==
    /\ vpc # "start" /\ StartsWith(Clean(vsql), t_select)
                     /\ ~FORBIDDEN_SQL(Clean(vsql)) =>
           IF \E i \in 1..(Len(Clean(vsql)) - 1) : Clean(vsql)[i] = ";"
           THEN vres = MultipleStatements
           ELSE vres = Accepted
    /\ vpc # "start" /\ vsql = two_selects => vres = MultipleStatements

\* C11: a text with a trailing ';' followed by whitespace was accepted
C11_Witness ==
    /\ vpc = "validated"
    /\ vres = Accepted
    /\ Len(vsql) > 1
    /\ vsql[Len(vsql)] \in Whitespace
    /\ vsql[Len(vsql) - 1] = ";"

t_limit == <<"l", "i", "m", "i", "t">>

\* C12: the statement run_sql_query makes of an accepted text holds no ';'
\* before its final character and holds the word limit, whatever the case.
C12_NormalizedIsBounded ==
    vpc = "ran" /\ vres = Accepted =>
        /\ Len(vrun.stmts) = 1
        /\ ~HasChar(ButLast(vrun.stmts[1]), ";")
        /\ HasWord(vrun.stmts[1], t_limit)

\* C12: a text with a trailing ';' and no limit was normalized
C12_Witness ==
    /\ vpc = "ran"
    /\ vres = Accepted
    /\ HasChar(vsql, ";")
    /\ ~HasWord(vsql, t_limit)
    /\ Len(vrun.stmts) = 1
    /\ HasWord(vrun.stmts[1], t_limit)

\* the word limit stands in s between whitespace, or the start or the end
HasStandaloneLimit(s) ==
    \E i \in 1..Len(s) :
        /\ i + Len(t_limit) - 1 <= Len(s)
        /\ Lower(SubSeq(s, i, i + Len(t_limit) - 1)) = t_limit
        /\ (i = 1 \/ s[i - 1] \in Whitespace)
        /\ (i + Len(t_limit) - 1 = Len(s) \/ s[i + Len(t_limit)] \in Whitespace)

\* C13: the statement made of an accepted text is the trimmed text without
\* its trailing ';', followed by ' LIMIT 100' when the text has no standalone
\* word limit (delimited by any whitespace, the start or the end), and left
\* at that when it has one; 'select name from customers' gets ' LIMIT 100'
\* and 'select * from orders limit 10' is unchanged.
C13_LimitAppendedOnlyIfMissing ==
    vpc = "ran" /\ vres = Accepted =>
        /\ Len(vrun.stmts) = 1
        /\ vrun.stmts[1] =
               IF HasStandaloneLimit(RStripSemi(Strip(vsql)))
               THEN RStripSemi(Strip(vsql))
               ELSE RStripSemi(Strip(vsql)) \o LIMIT_100
        /\ vsql = select_name => vrun.stmts[1] = select_name \o LIMIT_100
        /\ vsql = select_orders_limit => vrun.stmts[1] = select_orders_limit

C15_DataStoreErrorIsReported ==
    step.op = "approve" /\ step.calls.stmts # <<>> /\ step.result.db.k = "error" =>
        /\ Len(step.calls.ran) = 1
        /\ step.calls.ran[1].raised = ""
        /\ step.calls.ran[1].ret = [error |-> step.result.db.error]
        /\ ~step.raised
        /\ step.appended = <<Failed(step.result.db.error)>>
        /\ step.calls.exports = <<>> /\ step.calls.charts = <<>>
        /\ step.calls.formats = <<>>
        /\ pending_sql = None

\* C15: an approved statement met an error of the data store
C15_Witness ==
    /\ step.op = "approve"
    /\ step.calls.stmts # <<>>
    /\ step.result.db = [k |-> "error", error |-> DbError]
    /\ messages[Len(messages)] = Failed(DbError)

\* the type the classifier gave the utterance of the last step
IntentType == 
    IF step.op = "utter" /\ step.result.cls.k = "obj"
    THEN Get(step.result.cls.parsed, "type", "None")
    ELSE "None"

\* the object the classifier gave the utterance of the last step
Intent == step.result.cls.parsed

\* the assistant message of a chat turn carries a file or an image
Produced(appended) ==
    \E i \in 1..Len(appended) :
        "file_data" \in DOMAIN appended[i] \/ "chart_data" \in DOMAIN appended[i]

\* C16: an export of an empty row sequence yields a 'no data to export'
\* error and calls no export writer, when a pending export is approved and
\* the statement fetches no rows, and when an utterance is classified as
\* export and the session holds no rows; no file is produced.
C16_NoDataToExport ==
    /\ step.op = "approve" /\ step.before # None
                           /\ Get(step.before[1], "auto_export", FALSE)
                           /\ ~Get(step.before[1], "auto_chart", FALSE)
                           /\ step.calls.fetched = <<<<>>>> =>
           /\ step.calls.exports = <<>>
           /\ step.appended =
                  <<Failed(Txt("Query returned no results to export."))>>
           /\ ~Produced(step.appended)
    /\ IntentType = "export" /\ ~HasData(last_results) =>
           /\ step.calls.exports = <<>>
           /\ ~Produced(step.appended)
           /\ Len(step.appended) = 2
           /\ step.appended[2].content =
                  <<"Sorry, I couldn't generate the file: ", "No data to export">>

\* a column asked for is not among the keys of the rows
Lacks(rows, column) == column = None \/ column[1] \notin Columns(rows)

\* the column that generate_chart misses first
Missing(rows, x_column, y_column) ==
    IF Lacks(rows, x_column) THEN Str(x_column) ELSE Str(y_column)

ColumnNotFound(column) == <<"Column '">> \o column \o <<"' not found in data">>

\* C17: a chart whose x or y column is not among the keys of the rows yields
\* the error 'Column ... not found in data' and nothing is drawn, when a
\* pending chart is approved and when an utterance is classified as chart;
\* no image is produced.
C17_ColumnNotFound ==
    /\ step.op = "approve" /\ step.before # None
                           /\ Get(step.before[1], "auto_chart", FALSE)
                           /\ step.calls.fetched # <<>>
                           /\ step.calls.fetched[1] # <<>>
                           /\ (\/ Lacks(step.calls.fetched[1], step.before[1].x_column)
                               \/ Lacks(step.calls.fetched[1], step.before[1].y_column)) =>
           /\ step.calls.charts = <<>>
           /\ step.appended =
                  <<Failed(ColumnNotFound(Missing(step.calls.fetched[1],
                                                  step.before[1].x_column,
                                                  step.before[1].y_column)))>>
    /\ IntentType = "chart" /\ HasData(last_results)
                            /\ (\/ Lacks(last_results[1], Opt(Intent, "x_column"))
                                \/ Lacks(last_results[1], Opt(Intent, "y_column"))) =>
           /\ step.calls.charts = <<>>
           /\ ~Produced(step.appended)
           /\ Len(step.appended) = 2
           /\ step.appended[2].content =
                  <<"Sorry, I couldn't generate the chart: ">>
                  \o ColumnNotFound(Missing(last_results[1],
                                            Opt(Intent, "x_column"),
                                            Opt(Intent, "y_column")))

\* C17: an utterance asked for a chart of a column the stored rows lack
C17_Witness ==
    /\ IntentType = "chart"
    /\ HasData(last_results)
    /\ Lacks(last_results[1], Opt(Intent, "x_column"))
    /\ step.calls.charts = <<>>

\* the result types run_llm knows
KnownTypes == {"answer", "sql", "sql_and_export", "sql_and_chart", "export", "chart"}

\* C18: whatever the classifier puts out, run_llm does not fail and returns
\* one intent; for text that is not JSON, JSON that is not an object, and an
\* object without a known type, the intent is a direct answer carrying the
\* raw text, shown as an ordinary assistant message.
C18_ClassifierOutputDegrades ==
    step.op = "utter" /\ step.result.cls.k # "raise" =>
        /\ ~step.raised
        /\ step.result.type \in KnownTypes
        /\ step.result.cls.k \in {"text", "json"} \/ IntentType \notin KnownTypes =>
               /\ step.result.type = "answer"
               /\ step.appended =
                      <<Message("user", Txt(step.result.prompt)),
                        Message("assistant", step.result.cls.raw)>>

\* C19: an utterance classified as export or chart in a session whose last
\* results are absent or empty calls no renderer, leaves no pending action
\* and is answered directly, with no file and no image.
C19_DispatchNeedsRows ==
    IntentType \in {"export", "chart"}
        /\ (last_results = None \/ last_results[1] = <<>>) =>
        /\ ~step.raised
        /\ step.calls = NoCalls
        /\ pending_sql = None
        /\ step.result.type = "answer"
        /\ step.appended =
               <<Message("user", Txt(step.result.prompt)),
                 Message("assistant", Get(Intent, "content", step.result.cls.raw))>>

\* C19: a chart was asked for in a session whose last query returned no rows
C19_Witness ==
    /\ IntentType = "chart"
    /\ last_results = Some(<<>>)
    /\ step.result.type = "answer"
    /\ step.calls.charts = <<>>

\* C20: after a clear the session is as init_session_state makes a fresh one:
\* the greeting alone, no last results, no pending action, and the stored
\* last-chart parameters back to None.
C20_ClearResetsSession ==
    step.op = "clear" =>
        /\ messages = <<Greeting>>
        /\ last_results = None
        /\ pending_sql = None
        /\ last_chart = NoChart

-----------------------------------------------------------------------------
(* Properties of sessions served in parallel.                              *)

\* C21: sessions that approve their exports in parallel are isolated under
\* every interleaving: the file bytes a session receives were written from
\* the rows of its own query, never from the rows of another session.
C21_SessionsAreIsolated ==
    \A s \in DOMAIN sess :
        sess[s].file_data # None =>
            sess[s].file_data[1] = safe_rows(RowsOf(s))

\* the sessions inside run_sql_query with a connection of theirs
InCall == {s \in DOMAIN sess : sess[s].pc \in {"execute", "close"}}

\* C26: every connection that is open belongs to one run_sql_query call in
\* progress and to no other, so a call that returned, with rows or with the
\* error of the data store, left its connection closed, and no connection
\* is open when no call is in progress.
C26_ConnectionsAreClosed ==
    /\ conns = {sess[s].conn : s \in InCall}
    /\ \A s, t \in InCall : s # t => sess[s].conn # sess[t].conn
    /\ InCall = {} => conns = {}

\* C26: one session's call returned the error of the data store, another's
\* returned rows that were exported, and no connection is open
C26_Witness ==
    /\ \E s \in DOMAIN sess :
           sess[s].pc = "done" /\ sess[s].result = [error |-> DbError]
    /\ \E s \in DOMAIN sess : sess[s].file_data # None
    /\ opened > 1
    /\ conns = {}

-----------------------------------------------------------------------------
(* Properties of the rows and of the approval steps.                       *)

\* a raw byte sequence stands in a row
HasBytes(rows) ==
    \E i \in 1..Len(rows) : \E c \in DOMAIN rows[i] : rows[i][c].t = "bytes"

\* C22: row values are sanitized before they leave the executor: no rows
\* returned by run_sql_query, no last_results, and no rows handed to an
\* export writer, the chart renderer or the result formatter hold a raw byte
\* sequence.
C22_RowsLeaveSanitized ==
    /\ \A i \in 1..Len(step.calls.ran) :
           "rows" \in DOMAIN step.calls.ran[i].ret =>
               ~HasBytes(step.calls.ran[i].ret.rows)
    /\ last_results # None => ~HasBytes(last_results[1])
    /\ \A i \in 1..Len(step.calls.exports) : ~HasBytes(step.calls.exports[i].rows)
    /\ \A i \in 1..Len(step.calls.charts) : ~HasBytes(step.calls.charts[i].rows)
    /\ \A i \in 1..Len(step.calls.formats) : ~HasBytes(step.calls.formats[i])

\* the collaborator the pending action selects
Selected(pending) ==
    IF Get(pending, "auto_chart", FALSE) THEN "chart"
    ELSE IF Get(pending, "auto_export", FALSE) THEN "export"
    ELSE "format"

\* C23: an approval validates, executes, dispatches and clears the pending
\* action, in that order: a collaborator is called only after the validator
\* accepted the text and the data store returned rows, at most one is
\* called, and it is the one the pending action selects (the formatter, the
\* export writer with the stored format, the chart renderer with the stored
\* columns), on the rows fetched; none is called when validation or
\* execution failed; the pending action is cleared last, unless an exception
\* escaped.
C23_ApproveStepsInOrder ==
    step.op = "approve" /\ step.before # None =>
        /\ step.calls.trace \in
               { <<"validate">>, <<"validate", "execute">>,
                 <<"validate", "execute", Selected(step.before[1])>> }
        /\ step.calls.validated = <<>> => step.calls.trace = <<"validate">>
        /\ step.result.db.k = "error" => Len(step.calls.trace) <= 2
        /\ Len(step.calls.exports) + Len(step.calls.charts)
               + Len(step.calls.formats) = (IF Len(step.calls.trace) = 3 THEN 1 ELSE 0)
        /\ Len(step.calls.trace) = 3 =>
               /\ step.calls.validated = <<step.before[1].sql[1]>>
               /\ step.result.db.k = "rows"
               /\ step.calls.fetched = <<step.result.db.rows>>
               /\ step.result.db.rows # <<>>
        /\ \A i \in 1..Len(step.calls.exports) :
               step.calls.exports[i] =
                   [fmt |-> step.before[1].export_format,
                    rows |-> safe_rows(step.result.db.rows)]
        /\ \A i \in 1..Len(step.calls.charts) :
               /\ step.calls.charts[i].rows = safe_rows(step.result.db.rows)
               /\ step.calls.charts[i].chart_type = step.before[1].chart_type
               /\ Some(step.calls.charts[i].x_column) = step.before[1].x_column
               /\ Some(step.calls.charts[i].y_column) = step.before[1].y_column
        /\ \A i \in 1..Len(step.calls.formats) :
               step.calls.formats[i] = step.result.db.rows
        /\ step.raised \/ pending_sql = None

\* C23: an approval validated, executed and called the PDF export writer,
\* and left no pending action
C23_Witness ==
    /\ step.op = "approve"
    /\ step.calls.trace = <<"validate", "execute", "export">>
    /\ step.calls.exports[1].fmt = "pdf"
    /\ pending_sql = None

\* C24: the pending action made of a sql_and_chart result carries the chart
\* type, the x and y columns, the title and the theme of that result, and
\* the chart an approval draws is drawn with exactly the chart type, columns,
\* title and theme stored.
C24_PendingCarriesChartSpec ==
    /\ step.op = "utter" /\ step.result.type = "sql_and_chart" =>
           /\ pending_sql # None
           /\ pending_sql[1].chart_type = step.result.ret.chart_type
           /\ pending_sql[1].x_column = step.result.ret.x_column
           /\ pending_sql[1].y_column = step.result.ret.y_column
           /\ pending_sql[1].title = step.result.ret.title
           /\ "theme" \in DOMAIN pending_sql[1]
           /\ pending_sql[1].theme = step.result.ret.theme
    /\ step.op = "approve" /\ step.before # None =>
           \A i \in 1..Len(step.calls.charts) :
               /\ step.calls.charts[i].chart_type = step.before[1].chart_type
               /\ Some(step.calls.charts[i].x_column) = step.before[1].x_column
               /\ Some(step.calls.charts[i].y_column) = step.before[1].y_column
               /\ step.before[1].title # None =>
                      step.calls.charts[i].title = step.before[1].title
               /\ "theme" \in DOMAIN step.before[1]
               /\ step.calls.charts[i].theme = step.before[1].theme

\* C25: a fresh session has no pending action and the approval state
\* machine has no terminal state: a clear is accepted in every reachable
\* state and a deny whenever an action is pending (the chat input and the
\* Allow & Run button have no guard either: ChatInput is limited by MaxUtter
\* alone and Approve by nothing), and after every approve or deny no action
\* is pending.
C25_NoTerminalState ==
    /\ step.op = "init" => pending_sql = None
    /\ step.op \in {"approve", "deny"} => pending_sql = None
    /\ ENABLED ClearChat
    /\ pending_sql # None => ENABLED Deny

\* C27: dispatch only reads the rows: an utterance classified as export or
\* chart leaves last_results as it was and the pending action as
\* process_user_input found it, and last_results changes only in an approval
\* whose execution and dispatch both succeeded, to the rows of that query,
\* and in a clear; a deny, a new utterance of any kind and a failed approval
\* leave it as it was.
C27_ResultsChangeOnlyOnApprove ==
    [][ /\ IntentType' \in {"export", "chart"} =>
               /\ last_results' = last_results
               /\ pending_sql' = step'.result.left
        /\ last_results' # last_results =>
               \/ /\ step'.op = "approve"
                  /\ step'.result.ok
                  /\ last_results' = Some(safe_rows(step'.result.db.rows))
               \/ step'.op = "clear" /\ last_results' = None ]_vars

\* the session dict with only the keys of K
Only(state, K) == [key \in K |-> state[key]]

\* C28: init_session_state never overwrites a key the session holds: a
\* fresh session gets the defaults, a session that holds some of the keys
\* keeps them and gets the defaults of the others, and a rerun of the script
\* leaves messages, last_results, pending_sql and the chart settings as they
\* were, so that a pending action survives it.
C28_InitKeepsExistingKeys ==
    /\ [](step.op = "init" => session_state = defaults)
    /\ [](\A K \in SUBSET DOMAIN defaults :
             init_session_state(Only(session_state, K)) =
                 [key \in DOMAIN defaults |->
                     IF key \in K THEN session_state[key] ELSE defaults[key]])
    /\ [][step'.op = "rerun" => session_vars' = session_vars]_vars

\* C28: the script was rerun in a session that holds a pending action, last
\* results and a chat history
C28_Witness ==
    /\ step.op = "rerun"
    /\ pending_sql # None
    /\ last_results # None
    /\ Len(messages) > 1

-----------------------------------------------------------------------------
(* Properties of the normalization.                                        *)

\* C29: normalization is idempotent under re-validation: the statement
\* run_sql_query makes of an accepted text is accepted by the validator in
\* its turn, and normalizing it again gives exactly the same text.
C29_NormalizationIsIdempotent ==
    vpc = "ran" /\ vres = Accepted =>
        /\ Len(vrun.stmts) = 1
        /\ _validate_sql(Some(vrun.stmts[1])) = Accepted
        /\ Normalize(vrun.stmts[1]) = vrun.stmts[1]

-----------------------------------------------------------------------------
(* Properties of the chart customization.                                  *)

\* C30: regenerating the chart replaces the image only of a message that
\* shows a chart already: the history keeps its length, and every message
\* that had no chart_data before is unchanged, so none acquires an image.
C30_RegenerateReplacesOnlyCharts ==
    [][ step'.op = "regenerate" =>
            /\ Len(messages') = Len(messages)
            /\ \A i \in 1..Len(messages) :
                   ~ShowsChart(messages[i]) => messages'[i] = messages[i] ]_vars
====
